---- MODULE Spec2Model ----
(***************************************************************************)
(* Slot accounting of coc-server: the committee and committee_slots tables *)
(* and the database operations of src/database/queries.js that write them  *)
(* (addCommittee, updateCommittee, addCommitteeSlots, updateCommitteeSlots,*)
(* deleteSlotRequirement), run by concurrent requests against a            *)
(* READ COMMITTED store.  A multi-statement transaction (connection.tx     *)
(* with t.batch) is modelled statement by statement: its writes are        *)
(* pending and hold row locks until the transaction commits or rolls back. *)
(* The name and description columns of committee are not modelled.         *)
(***************************************************************************)
EXTENDS Integers, FiniteSets, Sequences, TLC

\* Largest slotRequirements value a request carries.
MaxSlots == 1

\* Largest total_slots value the model follows (guards cap the counter).
MaxTotal == 3

\* Committee ids the model follows: addCommittee creates rows up to the last one.
CommitteeIds == {1, 2}

\* Smallest total_slots value the model follows (the column is signed).
MinTotal == 0 - MaxSlots

\* Concurrent requests (each is one handler invocation at a time).
Procs == {"r1", "r2"}

\* Rows of senate_division (never written by these operations).
SenateDivisions == {"AO", "BQ"}

\* Division names a sequential request may carry: an existing and a missing one.
DivisionArgs == {"AO", "ZZ"}

\* Committee ids a request may carry (ids above the rows created are missing).
CommitteeArgs == CommitteeIds

\* slotRequirements / totalSlots values a request may carry.
SlotArgs == 0..MaxSlots

\* Required fields a request body may lack (one at most).
Fields == {"committeeId", "senateDivision", "slotRequirements", "name",
           "description", "totalSlots", "email", "oldDepartmentId",
           "newDepartmentId"}

\* Faculty emails and department ids of department_associations.
Emails == {"a@pdx.edu"}

DepartmentIds == {1, 2}

VARIABLES
  committee,        \* committee_id -> total_slots (committed rows)
  committee_slots,  \* <<committee_id, senate_division_short_name>> -> slot_requirements
  pc,               \* position of each request
  req,              \* arguments of each request's database call
  slotDifference,   \* updateCommitteeSlots: the value bound to $2 of the aggregate update
  txSlot,           \* the transaction holds a pending write of its committee_slots row
  txTotal,          \* the transaction's pending write of its committee row
  txErr,            \* error code that aborted the transaction ("" for none)
  result,           \* how the operation's promise settled
  status,           \* HTTP status the handler answered (0: none yet)
  hist,             \* history: what each updateCommitteeSlots call saw and raced with
  response,         \* what the handler sent besides the status (header, body)
  calls,            \* history: database operations, write transactions and answers of each request
  db,               \* the connection module's handle (0: not created yet)
  created,          \* history: number of handles the connection module has created
  conn,             \* the handle each request's database operation works on (0: none)
  department_associations  \* rows <<email, department_id>>

\* What the statements of a transaction leave alone.
handlerVars == <<response, calls, db, created, conn, department_associations>>

vars == <<committee, committee_slots, pc, req, slotDifference, txSlot, txTotal,
          txErr, result, status, hist, handlerVars>>

----------------------------------------------------------------------------
\* SQL values: a nullable integer is <<>> (NULL) or <<v>>.

NULL == <<>>

Int1(v) == <<v>>

\* SQL integer addition: NULL if either operand is NULL.
SqlPlus(a, b) == IF a = NULL \/ b = NULL THEN NULL ELSE Int1(a[1] + b[1])

\* The model follows total_slots only inside MinTotal..MaxTotal.
InRange(t) == IF t = NULL THEN TRUE ELSE t[1] >= MinTotal /\ t[1] <= MaxTotal

\* A request: the operation its handler calls, the required field its body
\* lacks ("" for none) and the arguments it carries.
Request(op, missing, c, d, n) ==
  [op |-> op, missing |-> missing, committeeId |-> c, senateDivision |-> d,
   slotRequirements |-> n]

NoReq == Request("none", "", 0, "", 0)

NoWrite == [w |-> FALSE, v |-> NULL]

NoResult == [state |-> "none", code |-> "", rows |-> <<>>, message |-> ""]

\* A response with no header set and an empty body.
NoBody == [location |-> FALSE, message |-> "", error |-> ""]

NoCalls == [db |-> 0, tx |-> 0, answered |-> 0]

\* History of an updateCommitteeSlots call: total_slots of its committee at the
\* pre-read, and the commits of other requests since the pre-read ("none"; the
\* operation name, if there was exactly one and it wrote this call's slot row
\* without having been raced itself; "many" otherwise).  Of an
\* addCommitteeSlots call: total_slots of its committee at the call, and the
\* commits of other requests since ("none"; "addCommitteeSlots" with the row
\* it inserted, if there was exactly one, an unraced add to the same
\* committee; "many" otherwise).  again: the call repeats the request's
\* previous call, an updateCommitteeSlots of the same existing row to the
\* same count that resolved.
NoKey == <<0, "">>

NoHist == [readTotal |-> NULL, raced |-> "none", by |-> NoKey, again |-> FALSE]

ManyHist == [readTotal |-> NULL, raced |-> "many", by |-> NoKey, again |-> FALSE]

Key(p) == <<req[p].committeeId, req[p].senateDivision>>

\* Request p's previous call was updateCommitteeSlots(c, d, n), it resolved,
\* and the row it addressed exists.
Repeats(p, c, d, n) ==
  /\ pc[p] = "done"
  /\ req[p].op = "updateCommitteeSlots"
  /\ <<req[p].committeeId, req[p].senateDivision, req[p].slotRequirements>>
       = <<c, d, n>>
  /\ result[p].state = "resolved"
  /\ <<c, d>> \in DOMAIN committee_slots

\* Sum of slot_requirements over the slot rows of committee c.
RECURSIVE SumOver(_, _)
SumOver(f, S) ==
  IF S = {} THEN 0
  ELSE LET k == CHOOSE x \in S : TRUE IN f[k] + SumOver(f, S \ {k})

SlotKeysOf(c) == {k \in DOMAIN committee_slots : k[1] = c}

SlotSum(c) == SumOver(committee_slots, SlotKeysOf(c))

----------------------------------------------------------------------------
\* Row locks of READ COMMITTED: a pending write blocks other writers of the row.

SlotLockedByOther(p, k) ==
  \E q \in Procs \ {p} : txSlot[q] /\ Key(q) = k

\* Variant: the aggregate statement does not wait for a pending write of the
\* committee row (total_slots read first and written back as a value).
CommitteeLockedByOther_NoRowLock(p, c) == FALSE

CommitteeLockedByOther(p, c) ==
  \E q \in Procs \ {p} : txTotal[q].w /\ req[q].committeeId = c

Free(p) == pc[p] \in {"idle", "done"}

TxInFlight == \E p \in Procs : ~Free(p)

\* An updateCommitteeSlots call between its pre-read and its transaction's end.
PastPreRead(p) ==
  req[p].op = "updateCommitteeSlots" /\ pc[p] \in {"stmt1", "stmt2", "end"}

\* An addCommitteeSlots call between its start and its transaction's end.
AddInFlight(p) ==
  req[p].op = "addCommitteeSlots" /\ pc[p] \in {"stmt1", "stmt2", "end"}

\* History after request q committed a write (its slot row being k): every
\* other call in flight records the commit.
Observed(h, q, op, k) ==
  [p \in Procs |->
     IF p # q /\ PastPreRead(p)
     THEN IF h[p].raced = "none" /\ k = Key(p)
          THEN [h[p] EXCEPT !.raced = op]
          ELSE ManyHist
     ELSE IF p # q /\ AddInFlight(p)
     THEN IF /\ h[p].raced = "none" /\ op = "addCommitteeSlots"
             /\ k[1] = req[p].committeeId
          THEN [h[p] EXCEPT !.raced = op, !.by = k]
          ELSE ManyHist
     ELSE h[p]]

----------------------------------------------------------------------------
Init ==
  /\ committee = [c \in {1} |-> Int1(0)]
  /\ committee_slots = [k \in {} |-> 0]
  /\ pc = [p \in Procs |-> "idle"]
  /\ req = [p \in Procs |-> NoReq]
  /\ slotDifference = [p \in Procs |-> NULL]
  /\ txSlot = [p \in Procs |-> FALSE]
  /\ txTotal = [p \in Procs |-> NoWrite]
  /\ txErr = [p \in Procs |-> ""]
  /\ result = [p \in Procs |-> NoResult]
  /\ status = [p \in Procs |-> 0]
  /\ hist = [p \in Procs |-> NoHist]
  /\ response = [p \in Procs |-> NoBody]
  /\ calls = [p \in Procs |-> NoCalls]
  /\ db = 0
  /\ created = 0
  /\ conn = [p \in Procs |-> 0]
  /\ department_associations = {<<"a@pdx.edu", 1>>}

----------------------------------------------------------------------------
\* Table helpers.

Put(f, k, v) == [x \in DOMAIN f \cup {k} |-> IF x = k THEN v ELSE f[x]]

Remove(f, k) == [x \in DOMAIN f \ {k} |-> f[x]]

Resolved(rows) == [state |-> "resolved", code |-> "", rows |-> rows, message |-> ""]

\* err.message of a rejection with the given code.
ErrorText(code) ==
  CASE code = "23503" -> "violates foreign key constraint"
    [] code = "23505" -> "duplicate key value violates unique constraint"
    [] code = "23502" -> "violates not-null constraint"
    [] OTHER -> "Connection terminated unexpectedly"

\* Variant: the rejection carries the failed statement's text but not its code.
Rejected_NoCode(code) ==
  [state |-> "rejected", code |-> "", rows |-> <<>>, message |-> ErrorText(code)]

Rejected(code) ==
  [state |-> "rejected", code |-> code, rows |-> <<>>, message |-> ErrorText(code)]

----------------------------------------------------------------------------
\* Request handlers: how a settled operation becomes an HTTP status.

\* POST /committee-slots
PostSlotsStatus(res) ==
  IF res.state = "resolved" THEN 201
  ELSE IF res.code \in {"23503", "23505"} THEN 409
  ELSE 500

\* PUT /committee-slots/:id/:name
PutSlotsStatus(res) ==
  IF res.state = "rejected" THEN 500
  ELSE IF res.rows[1] = 0 THEN 404
  ELSE 200

\* DELETE /committee-slots/:committee_id/:senate_division_short_name
DeleteSlotsStatus(res) ==
  IF res.state = "rejected" THEN 500
  ELSE IF res.rows[1] = 0 THEN 404
  ELSE 200

\* POST /committee: .then -> 201, .catch -> 500
PostCommitteeStatus(res) ==
  IF res.state = "resolved" THEN 201 ELSE 500

\* PUT /committee: !result.rowCount -> 404, else 200, .catch -> 500
PutCommitteeStatus(res) ==
  IF res.state = "rejected" THEN 500
  ELSE IF res.rows[1] = 0 THEN 404
  ELSE 200

\* PUT /department-associations: !result.rowCount -> 404, else 200, .catch -> 500
PutDepartmentStatus(res) ==
  IF res.state = "rejected" THEN 500
  ELSE IF res.rows[1] = 0 THEN 404
  ELSE 200

HandlerStatus(op, res) ==
  CASE op = "addCommitteeSlots" -> PostSlotsStatus(res)
    [] op = "updateCommitteeSlots" -> PutSlotsStatus(res)
    [] op = "deleteSlotRequirement" -> DeleteSlotsStatus(res)
    [] op = "addCommittee" -> PostCommitteeStatus(res)
    [] op = "updateCommittee" -> PutCommitteeStatus(res)
    [] op = "updateDepartmentAssociations" -> PutDepartmentStatus(res)

\* Body of the slot handlers' 500 answer.
ServerErrorBody(res) ==
  [NoBody EXCEPT !.message = "Internal Server Error", !.error = res.message]

\* POST /committee-slots: the 201 answer sets the Location header.
PostSlotsBody(res) ==
  IF res.state = "resolved" THEN [NoBody EXCEPT !.location = TRUE]
  ELSE IF res.code \in {"23503", "23505"} THEN NoBody
  ELSE ServerErrorBody(res)

\* PUT /committee-slots/:id/:name
PutSlotsBody(res) ==
  IF res.state = "rejected" THEN ServerErrorBody(res) ELSE NoBody

\* DELETE /committee-slots/:committee_id/:senate_division_short_name
DeleteSlotsBody(res) ==
  IF res.state = "rejected" THEN ServerErrorBody(res) ELSE NoBody

\* POST and PUT /committee, PUT /department-associations: .catch sends
\* { error: 'Unable to complete database transaction' }.
RouterBody(res) ==
  IF res.state = "rejected"
  THEN [NoBody EXCEPT !.error = "Unable to complete database transaction"]
  ELSE NoBody

HandlerBody(op, res) ==
  CASE op = "addCommitteeSlots" -> PostSlotsBody(res)
    [] op = "updateCommitteeSlots" -> PutSlotsBody(res)
    [] op = "deleteSlotRequirement" -> DeleteSlotsBody(res)
    [] OTHER -> RouterBody(res)

\* Body of a handler's 400 answer.
BadRequestBody(op) ==
  IF op \in {"addCommitteeSlots", "updateCommitteeSlots"}
  THEN [NoBody EXCEPT !.message = "Bad Request"]
  ELSE [NoBody EXCEPT !.message = "400 Bad Request"]

----------------------------------------------------------------------------
\* Request validation: the fields each write handler requires, and its test.
\* A field the body lacks reads as undefined, which is falsy, as is 0.

RequiredFields(op) ==
  CASE op = "addCommitteeSlots" -> {"committeeId", "senateDivision", "slotRequirements"}
    [] op = "updateCommitteeSlots" -> {"slotRequirements"}
    [] op = "addCommittee" -> {"name", "description", "totalSlots"}
    [] op = "updateCommittee" -> {"committeeId", "name", "description", "totalSlots"}
    [] op = "updateDepartmentAssociations" ->
         {"email", "oldDepartmentId", "newDepartmentId"}
    [] OTHER -> {}

\* POST /committee-slots
PostSlotsValid(missing) ==
  missing \notin {"committeeId", "senateDivision", "slotRequirements"}

\* PUT /committee-slots/:id/:name
PutSlotsValid(missing) == missing # "slotRequirements"

\* POST /committee: !req.body.name || !req.body.description || !req.body.totalSlots
PostCommitteeValid(missing, totalSlots) ==
  missing \notin {"name", "description", "totalSlots"} /\ totalSlots # 0

\* Variant: PUT /committee does not require the description.
PutCommitteeValid_DescriptionOptional(missing, totalSlots) ==
  missing \notin {"committeeId", "name", "totalSlots"} /\ totalSlots # 0

\* PUT /committee: !req.body.committeeId || !req.body.name ||
\* !req.body.description || !req.body.totalSlots
PutCommitteeValid(missing, totalSlots) ==
  missing \notin {"committeeId", "name", "description", "totalSlots"}
    /\ totalSlots # 0

\* PUT /department-associations: !req.body.email || !req.body.oldDepartmentId ||
\* !req.body.newDepartmentId
PutDepartmentValid(missing) ==
  missing \notin {"email", "oldDepartmentId", "newDepartmentId"}

----------------------------------------------------------------------------
\* The connection module.

\* Variant: every call creates a handle.
LoadCreates_Always(handle) == TRUE

\* 'if (!db)': a handle is created only while none is held.
LoadCreates(handle) == handle = 0

\* loadDatabaseConnection(): 'if (!db) { db = pgp(config); } return db;', the
\* handle returned to request p's database operation.
LoadDatabaseConnection(p) ==
  /\ db' = IF LoadCreates(db) THEN created + 1 ELSE db
  /\ created' = IF LoadCreates(db) THEN created + 1 ELSE created
  /\ conn' = [conn EXCEPT ![p] = db']

\* Variant: a transaction lost to a connection failure is run once more.
Retries_OnConnectionLoss(code, attempts) == code = "ECONN" /\ attempts < 2

\* The operations return the promise of connection.tx as it is: no .catch
\* runs the transaction again, whatever the error and the attempts so far.
Retries(code, attempts) == FALSE

----------------------------------------------------------------------------
\* Statements of the operations.

\* Variant: the pre-read returns the new value instead of the difference.
SelectDifference_NoSubtract(slots, k, n) ==
  IF k \in DOMAIN slots THEN Int1(n) ELSE NULL

\* 'SELECT $2-slot_requirements AS difference ...' through connection.one with
\* .catch(err => err): with no row the error object is returned, its
\* .difference is undefined, and the query formatter binds undefined as null.
SelectDifference(slots, k, n) ==
  IF k \in DOMAIN slots THEN Int1(n - slots[k]) ELSE NULL

\* Persisted schema: committee(committee_id PK, name UNIQUE, description,
\* total_slots) carries no NOT NULL constraint on total_slots.
TotalSlotsNotNull == FALSE

\* Error of writing t to committee.total_slots ("" for none).
TotalSlotsError(t) == IF TotalSlotsNotNull /\ t = NULL THEN "23502" ELSE ""

\* Variant: the aggregate update of addCommitteeSlots adds nothing.
AddTotalValue_NoIncrement(total, n) == total

\* 'UPDATE committee SET total_slots = (total_slots +$2)' of addCommitteeSlots.
AddTotalValue(total, n) == SqlPlus(total, Int1(n))

\* Variant: the aggregate update of updateCommitteeSlots subtracts the difference.
UpdateTotalValue_Subtracts(total, difference) ==
  IF total = NULL \/ difference = NULL THEN NULL
  ELSE Int1(total[1] - difference[1])

\* 'UPDATE committee SET total_slots =(total_slots+$2)' of updateCommitteeSlots.
UpdateTotalValue(total, difference) == SqlPlus(total, difference)

\* Variant: no foreign key on senate_division_short_name.
InsertError_NoDivisionKey(slots, committees, c, d) ==
  IF <<c, d>> \in DOMAIN slots THEN "23505"
  ELSE IF c \notin DOMAIN committees THEN "23503"
  ELSE ""

\* Variant: no unique index on (committee_id, senate_division_short_name).
InsertError_NoUniqueIndex(slots, committees, c, d) ==
  IF c \notin DOMAIN committees \/ d \notin SenateDivisions THEN "23503"
  ELSE ""

\* Constraint check of 'INSERT INTO committee_slots': the unique index is
\* checked when the row is inserted, the foreign keys at the statement's end.
InsertError(slots, committees, c, d) ==
  IF <<c, d>> \in DOMAIN slots THEN "23505"
  ELSE IF c \notin DOMAIN committees \/ d \notin SenateDivisions THEN "23503"
  ELSE ""

\* Variant: the slot update writes the row whether or not it exists (an upsert).
UpdateSlotMatches_Upsert(slots, k) == TRUE

\* Rows matched by 'UPDATE committee_slots ... WHERE committee_id = $2 and
\* senate_division_short_name = $3'.
UpdateSlotMatches(slots, k) == k \in DOMAIN slots

\* Rows matched by 'DELETE FROM committee_slots WHERE ...'.
DeleteMatches(slots, k) == k \in DOMAIN slots

\* Table committee_slots after a transaction ends: its pending write is
\* applied on commit and dropped on rollback.
SlotsAfterTx(slots, committed, wrote, k, n) ==
  IF committed /\ wrote THEN Put(slots, k, n) ELSE slots

\* Table committee after a transaction ends.
CommitteeAfterTx(committees, committed, write, c) ==
  IF committed /\ write.w THEN [committees EXCEPT ![c] = write.v] ELSE committees

\* Variant: the DELETE matches on senate_division_short_name only.
SlotsAfterDelete_ByDivision(slots, k) ==
  [x \in {y \in DOMAIN slots : y[2] # k[2]} |-> slots[x]]

\* Table committee_slots after the DELETE statement.
SlotsAfterDelete(slots, k) == Remove(slots, k)

\* Variant: the delete also lowers the parent's total_slots by the row's count.
CommitteeAfterDelete_Decrements(committees, slots, k) ==
  [committees EXCEPT ![k[1]] = IF @ = NULL THEN NULL ELSE Int1(@[1] - slots[k])]

\* Table committee after deleteSlotRequirement (a single DELETE on committee_slots).
CommitteeAfterDelete(committees, slots, k) == committees

----------------------------------------------------------------------------
\* addCommitteeSlots(committeeId, senateDivision, slotRequirements)

\* The handler answers 400 without calling the database.
BadRequest(p, op, f) ==
  /\ req' = [req EXCEPT ![p] = Request(op, f, 0, "", 0)]
  /\ result' = [result EXCEPT ![p] = NoResult]
  /\ status' = [status EXCEPT ![p] = 400]
  /\ response' = [response EXCEPT ![p] = BadRequestBody(op)]
  /\ calls' = [calls EXCEPT ![p] = [NoCalls EXCEPT !.answered = 1]]
  /\ pc' = [pc EXCEPT ![p] = "done"]
  /\ hist' = [hist EXCEPT ![p] = NoHist]
  /\ UNCHANGED <<committee, committee_slots, slotDifference, txSlot, txTotal,
                 txErr, db, created, conn, department_associations>>

\* The operation takes the connection and starts its transaction.
CallAddCommitteeSlots(p, f, c, d, n) ==
  /\ LoadDatabaseConnection(p)
  /\ calls' = [calls EXCEPT ![p] = [db |-> 1, tx |-> 1, answered |-> 0]]
  /\ pc' = [pc EXCEPT ![p] = "stmt1"]
  /\ req' = [req EXCEPT ![p] = Request("addCommitteeSlots", f, c, d, n)]
  /\ result' = [result EXCEPT ![p] = NoResult]
  /\ status' = [status EXCEPT ![p] = 0]
  /\ response' = [response EXCEPT ![p] = NoBody]
  /\ hist' = [hist EXCEPT ![p] =
        [NoHist EXCEPT !.readTotal =
           IF c \in DOMAIN committee THEN committee[c] ELSE NULL]]
  /\ UNCHANGED <<committee, committee_slots, slotDifference, txSlot, txTotal,
                 txErr, department_associations>>

\* POST /committee-slots with a body lacking the field f ("" for none).
PostCommitteeSlots(p, f, c, d, n) ==
  /\ Free(p)
  /\ IF PostSlotsValid(f)
     THEN CallAddCommitteeSlots(p, f, c, d, n)
     ELSE BadRequest(p, "addCommitteeSlots", f)

\* First statement of the batch: the INSERT.  An insert of a key another
\* transaction has inserted but not committed waits for that transaction.
AddInsert(p) ==
  /\ pc[p] = "stmt1"
  /\ req[p].op = "addCommitteeSlots"
  /\ ~(Key(p) \notin DOMAIN committee_slots /\ SlotLockedByOther(p, Key(p)))
  /\ LET e == InsertError(committee_slots, committee,
                          req[p].committeeId, req[p].senateDivision)
     IN /\ txErr' = [txErr EXCEPT ![p] = e]
        /\ txSlot' = [txSlot EXCEPT ![p] = (e = "")]
  /\ pc' = [pc EXCEPT ![p] = "stmt2"]
  /\ UNCHANGED <<committee, committee_slots, req, slotDifference, txTotal,
                 result, status, hist, handlerVars>>

\* Second statement of the batch: the aggregate update.  After a failed
\* INSERT the store refuses it (the transaction is aborted) and nothing is written.
AddTotal(p) ==
  /\ pc[p] = "stmt2"
  /\ req[p].op = "addCommitteeSlots"
  /\ IF txErr[p] # "" \/ req[p].committeeId \notin DOMAIN committee
     THEN UNCHANGED txTotal
     ELSE /\ ~CommitteeLockedByOther(p, req[p].committeeId)
          /\ LET t == AddTotalValue(committee[req[p].committeeId],
                                    req[p].slotRequirements)
             IN /\ InRange(t)
                /\ txTotal' = [txTotal EXCEPT ![p] = [w |-> TRUE, v |-> t]]
  /\ pc' = [pc EXCEPT ![p] = "end"]
  /\ UNCHANGED <<committee, committee_slots, req, slotDifference, txSlot, txErr,
                 result, status, hist, handlerVars>>

----------------------------------------------------------------------------
\* updateCommitteeSlots(committeeId, senateDivision, slotRequirements)

\* The call issues the pre-read at once, outside the transaction: it sees
\* committed rows only.  The transaction starts when the pre-read has settled.
PreRead(p, f, c, d, n) ==
  /\ LoadDatabaseConnection(p)
  /\ calls' = [calls EXCEPT ![p] = [db |-> 1, tx |-> 1, answered |-> 0]]
  /\ req' = [req EXCEPT ![p] = Request("updateCommitteeSlots", f, c, d, n)]
  /\ slotDifference' = [slotDifference EXCEPT ![p] =
        SelectDifference(committee_slots, <<c, d>>, n)]
  /\ hist' = [hist EXCEPT ![p] =
        [NoHist EXCEPT !.readTotal =
           IF c \in DOMAIN committee THEN committee[c] ELSE NULL,
                       !.again = Repeats(p, c, d, n)]]
  /\ result' = [result EXCEPT ![p] = NoResult]
  /\ status' = [status EXCEPT ![p] = 0]
  /\ response' = [response EXCEPT ![p] = NoBody]
  /\ pc' = [pc EXCEPT ![p] = "stmt1"]
  /\ UNCHANGED <<committee, committee_slots, txSlot, txTotal, txErr,
                 department_associations>>

\* PUT /committee-slots/:id/:name with a body lacking the field f ("" for none).
PutCommitteeSlots(p, f, c, d, n) ==
  /\ Free(p)
  /\ IF PutSlotsValid(f)
     THEN PreRead(p, f, c, d, n)
     ELSE BadRequest(p, "updateCommitteeSlots", f)

\* First statement of the batch: the slot update (waits for a row lock).
UpdateSlot(p) ==
  /\ pc[p] = "stmt1"
  /\ req[p].op = "updateCommitteeSlots"
  /\ IF UpdateSlotMatches(committee_slots, Key(p))
     THEN /\ ~SlotLockedByOther(p, Key(p))
          /\ txSlot' = [txSlot EXCEPT ![p] = TRUE]
     ELSE UNCHANGED txSlot
  /\ pc' = [pc EXCEPT ![p] = "stmt2"]
  /\ UNCHANGED <<committee, committee_slots, req, slotDifference, txTotal, txErr,
                 result, status, hist, handlerVars>>

\* Second statement of the batch: the aggregate update by the pre-read difference.
UpdateTotal(p) ==
  /\ pc[p] = "stmt2"
  /\ req[p].op = "updateCommitteeSlots"
  /\ IF req[p].committeeId \in DOMAIN committee
     THEN /\ ~CommitteeLockedByOther(p, req[p].committeeId)
          /\ LET t == UpdateTotalValue(committee[req[p].committeeId],
                                       slotDifference[p])
             IN /\ InRange(t)
                /\ txErr' = [txErr EXCEPT ![p] = TotalSlotsError(t)]
                /\ txTotal' = [txTotal EXCEPT ![p] =
                      IF TotalSlotsError(t) = "" THEN [w |-> TRUE, v |-> t] ELSE @]
     ELSE UNCHANGED <<txTotal, txErr>>
  /\ pc' = [pc EXCEPT ![p] = "end"]
  /\ UNCHANGED <<committee, committee_slots, req, slotDifference, txSlot,
                 result, status, hist, handlerVars>>

----------------------------------------------------------------------------
\* End of a connection.tx transaction.

\* The store or the connection fails between the two statements of a batch.
StoreFailure(p) ==
  /\ pc[p] = "stmt2"
  /\ txErr[p] = ""
  /\ txErr' = [txErr EXCEPT ![p] = "ECONN"]
  /\ pc' = [pc EXCEPT ![p] = "end"]
  /\ UNCHANGED <<committee, committee_slots, req, slotDifference, txSlot, txTotal,
                 result, status, hist, handlerVars>>

\* Variant: the batch runs the aggregate update before the slot statement.
BatchRows_TotalFirst(p) ==
  <<IF txTotal[p].w THEN 1 ELSE 0,
    IF req[p].op = "addCommitteeSlots" \/ txSlot[p] THEN 1 ELSE 0>>

\* Rows reported by the two statements of the batch.
BatchRows(p) ==
  IF req[p].op = "addCommitteeSlots"
  THEN <<1, IF txTotal[p].w THEN 1 ELSE 0>>
  ELSE <<IF txSlot[p] THEN 1 ELSE 0, IF txTotal[p].w THEN 1 ELSE 0>>

EndTx(p, committed) ==
  /\ pc[p] = "end"
  /\ committee_slots' = SlotsAfterTx(committee_slots, committed, txSlot[p], Key(p),
                                     req[p].slotRequirements)
  /\ committee' = CommitteeAfterTx(committee, committed, txTotal[p],
                                   req[p].committeeId)
  /\ IF ~committed /\ Retries(txErr[p], calls[p].tx)
     THEN /\ pc' = [pc EXCEPT ![p] = "stmt1"]
          /\ calls' = [calls EXCEPT ![p].tx = @ + 1]
          /\ UNCHANGED <<result, status, response, slotDifference>>
     ELSE LET res == IF committed THEN Resolved(BatchRows(p))
                     ELSE Rejected(txErr[p])
          IN /\ result' = [result EXCEPT ![p] = res]
             /\ status' = [status EXCEPT ![p] = HandlerStatus(req[p].op, res)]
             /\ response' = [response EXCEPT ![p] = HandlerBody(req[p].op, res)]
             /\ calls' = [calls EXCEPT ![p].answered = @ + 1]
             /\ slotDifference' = [slotDifference EXCEPT ![p] = NULL]
             /\ pc' = [pc EXCEPT ![p] = "done"]
  /\ txSlot' = [txSlot EXCEPT ![p] = FALSE]
  /\ txTotal' = [txTotal EXCEPT ![p] = NoWrite]
  /\ txErr' = [txErr EXCEPT ![p] = ""]
  /\ UNCHANGED <<req, db, created, conn, department_associations>>
  /\ hist' = IF committed /\ (txSlot[p] \/ txTotal[p].w)
             THEN Observed([hist EXCEPT ![p] = NoHist], p, req[p].op,
                           IF txSlot[p] /\ hist[p].raced = "none"
                           THEN Key(p) ELSE NoKey)
             ELSE [hist EXCEPT ![p] = NoHist]

\* Every statement of the batch succeeded: COMMIT, the promise resolves with
\* the statements' results and the handler answers.
TxCommit(p) == txErr[p] = "" /\ EndTx(p, TRUE)

\* A statement failed: ROLLBACK, the promise rejects with the batch's error
\* (recorded here by the code of its first failed statement) and the handler
\* answers.
TxRollback(p) == txErr[p] # "" /\ EndTx(p, FALSE)

----------------------------------------------------------------------------
\* Single-statement operations (each statement is its own transaction).

\* The operation takes the connection, runs its statement and settles; the
\* handler answers.
Answer(p, op, f, c, d, n, res, wrote) ==
  /\ LoadDatabaseConnection(p)
  /\ calls' = [calls EXCEPT ![p] = [db |-> 1, tx |-> 1, answered |-> 1]]
  /\ req' = [req EXCEPT ![p] = Request(op, f, c, d, n)]
  /\ result' = [result EXCEPT ![p] = res]
  /\ status' = [status EXCEPT ![p] = HandlerStatus(op, res)]
  /\ response' = [response EXCEPT ![p] = HandlerBody(op, res)]
  /\ pc' = [pc EXCEPT ![p] = "done"]
  /\ hist' = IF wrote THEN Observed([hist EXCEPT ![p] = NoHist], p, op, <<c, d>>)
             ELSE [hist EXCEPT ![p] = NoHist]
  /\ UNCHANGED <<slotDifference, txSlot, txTotal, txErr>>

\* DELETE /committee-slots/:committee_id/:senate_division_short_name and
\* deleteSlotRequirement(committee_id, senate_division_short_name)
DeleteSlotRequirement(p, c, d) ==
  /\ Free(p)
  /\ IF DeleteMatches(committee_slots, <<c, d>>)
     THEN /\ ~SlotLockedByOther(p, <<c, d>>)
          /\ committee_slots' = SlotsAfterDelete(committee_slots, <<c, d>>)
          /\ committee' = CommitteeAfterDelete(committee, committee_slots, <<c, d>>)
          /\ Answer(p, "deleteSlotRequirement", "", c, d, 0, Resolved(<<1>>), TRUE)
     ELSE /\ UNCHANGED <<committee, committee_slots>>
          /\ Answer(p, "deleteSlotRequirement", "", c, d, 0, Resolved(<<0>>), FALSE)
  /\ UNCHANGED department_associations

\* POST /committee and addCommittee(name, description, slots), the body
\* lacking the field f ("" for none).
AddCommittee(p, f, slots) ==
  /\ Free(p)
  /\ IF ~PostCommitteeValid(f, slots)
     THEN BadRequest(p, "addCommittee", f)
     ELSE /\ Cardinality(DOMAIN committee) + 1 \in CommitteeIds
          /\ LET id == Cardinality(DOMAIN committee) + 1
             IN /\ committee' = Put(committee, id, Int1(slots))
                /\ Answer(p, "addCommittee", f, id, "", slots, Resolved(<<1>>), TRUE)
          /\ UNCHANGED <<committee_slots, department_associations>>

\* PUT /committee and updateCommittee(id, name, description, slots), the body
\* lacking the field f ("" for none).
UpdateCommittee(p, f, id, slots) ==
  /\ Free(p)
  /\ IF ~PutCommitteeValid(f, slots)
     THEN BadRequest(p, "updateCommittee", f)
     ELSE IF id \in DOMAIN committee
     THEN /\ ~CommitteeLockedByOther(p, id)
          /\ committee' = [committee EXCEPT ![id] = Int1(slots)]
          /\ Answer(p, "updateCommittee", f, id, "", slots, Resolved(<<1>>), TRUE)
          /\ UNCHANGED <<committee_slots, department_associations>>
     ELSE /\ Answer(p, "updateCommittee", f, id, "", slots, Resolved(<<0>>), FALSE)
          /\ UNCHANGED <<committee, committee_slots, department_associations>>

\* Table department_associations after 'UPDATE department_associations SET
\* department_id = $3 WHERE email = $1 and department_id = $2'.
AssociationsAfterUpdate(rows, email, old, new) ==
  IF <<email, old>> \in rows
  THEN (rows \ {<<email, old>>}) \cup {<<email, new>>}
  ELSE rows

\* PUT /department-associations and updateDepartmentAssociations(email,
\* oldDepartmentId, newDepartmentId), the body lacking the field f.
UpdateDepartmentAssociations(p, f, email, old, new) ==
  /\ Free(p)
  /\ IF ~PutDepartmentValid(f)
     THEN BadRequest(p, "updateDepartmentAssociations", f)
     ELSE /\ department_associations' =
               AssociationsAfterUpdate(department_associations, email, old, new)
          /\ Answer(p, "updateDepartmentAssociations", f, 0, "", 0,
                    Resolved(<<IF <<email, old>> \in department_associations
                               THEN 1 ELSE 0>>), FALSE)
          /\ UNCHANGED <<committee, committee_slots>>

----------------------------------------------------------------------------
\* Fields a body may lack, among those in Fs, for the handler of op.
Lacking(Fs, op) == {""} \cup (Fs \cap RequiredFields(op))

\* One step of a slot operation of a request in P, its arguments drawn from
\* Cs, Ds and Ns and the field its body lacks from Fs.
SlotStep(P, Fs, Cs, Ds, Ns) ==
  \E p \in P :
    \/ \E f \in Lacking(Fs, "addCommitteeSlots"), c \in Cs, d \in Ds, n \in Ns :
         PostCommitteeSlots(p, f, c, d, n)
    \/ AddInsert(p)
    \/ AddTotal(p)
    \/ \E f \in Lacking(Fs, "updateCommitteeSlots"), c \in Cs, d \in Ds, n \in Ns :
         PutCommitteeSlots(p, f, c, d, n)
    \/ UpdateSlot(p)
    \/ UpdateTotal(p)
    \/ StoreFailure(p)
    \/ TxCommit(p)
    \/ TxRollback(p)
    \/ \E c \in Cs, d \in Ds : DeleteSlotRequirement(p, c, d)

\* One committee or department-association operation of a request in P.
CommitteeStep(P, Fs, Cs, Ns) ==
  \E p \in P :
    \/ \E f \in Lacking(Fs, "addCommittee"), n \in Ns : AddCommittee(p, f, n)
    \/ \E f \in Lacking(Fs, "updateCommittee"), c \in Cs, n \in Ns :
         UpdateCommittee(p, f, c, n)
    \/ \E f \in Lacking(Fs, "updateDepartmentAssociations"),
          e \in Emails, old \in DepartmentIds, new \in DepartmentIds :
         UpdateDepartmentAssociations(p, f, e, old, new)

\* Requests served one at a time, over every kind of argument.
Next ==
  \/ SlotStep({"r1"}, Fields, CommitteeArgs, DivisionArgs, SlotArgs)
  \/ CommitteeStep({"r1"}, Fields, CommitteeArgs, SlotArgs)

Spec == Init /\ [][Next]_vars

\* Two slot requests served concurrently, on the slots of committee 1, carrying
\* the smallest or the largest count.
NextConc == SlotStep(Procs, {}, {1}, SenateDivisions, {0, MaxSlots})

SpecConc == Init /\ [][NextConc]_vars

\* Two slot requests served concurrently, over existing and missing keys.
NextKeys == SlotStep(Procs, {}, CommitteeArgs, DivisionArgs, {MaxSlots})

SpecKeys == Init /\ [][NextKeys]_vars

\* Requests with complete bodies served one at a time, over the slots of
\* committee 1 for both divisions and over the committee operations.
NextTotals ==
  \/ SlotStep({"r1"}, {}, {1}, SenateDivisions, {MaxSlots})
  \/ CommitteeStep({"r1"}, {}, CommitteeArgs, SlotArgs)

SpecTotals == Init /\ [][NextTotals]_vars

----------------------------------------------------------------------------
\* Steps the properties speak about.

\* Request p's transaction ends in this step.
TxEnds(p, op) == pc[p] = "end" /\ req[p].op = op /\ pc'[p] = "done"

\* Request p's transaction commits in this step.
TxCommits(p, op) == TxEnds(p, op) /\ result'[p].state = "resolved"

\* Request p runs the single-statement operation op in this step (requests
\* served one at a time).
Runs(p, op) == Free(p) /\ pc'[p] = "done" /\ req'[p].op = op

\* total_slots t raised by the integer d.
Raised(t, d) == IF t = NULL THEN NULL ELSE Int1(t[1] + d)

----------------------------------------------------------------------------
\* C1: whenever no transaction is in flight, every committee's total_slots
\* equals the sum of slot_requirements over its slot rows.
C1_TotalEqualsSum ==
  ~TxInFlight => \A c \in DOMAIN committee : committee[c] = Int1(SlotSum(c))

\* C2: addCommitteeSlots on existing foreign keys and a free pair inserts the
\* slot row with slotRequirements = n and commits the parent's total_slots
\* raised by exactly n, no other committee or slot row changing.
C2_AddCreatesRowAndRaisesTotal ==
  [][\A p \in Procs :
       /\ ( /\ pc[p] = "stmt1" /\ req[p].op = "addCommitteeSlots"
            /\ pc'[p] = "stmt2"
            /\ req[p].committeeId \in DOMAIN committee
            /\ req[p].senateDivision \in SenateDivisions
            /\ Key(p) \notin DOMAIN committee_slots )
          => (txErr'[p] = "" /\ txSlot'[p])
       /\ TxCommits(p, "addCommitteeSlots")
          => /\ Key(p) \notin DOMAIN committee_slots
             /\ committee_slots' = Put(committee_slots, Key(p),
                                       req[p].slotRequirements)
             /\ committee' = [committee EXCEPT ![req[p].committeeId] =
                                Raised(@, req[p].slotRequirements)]
             /\ status'[p] = 201
    ]_vars

\* An add of a positive count has committed while a second committee exists.
W_C2_AddCommitted ==
  \E p \in Procs :
    /\ pc[p] = "done" /\ req[p].op = "addCommitteeSlots" /\ status[p] = 201
    /\ req[p].slotRequirements > 0
    /\ Key(p) \in DOMAIN committee_slots
    /\ committee_slots[Key(p)] = req[p].slotRequirements
    /\ committee[req[p].committeeId] # NULL
    /\ Cardinality(DOMAIN committee) > 1

\* C3: updateCommitteeSlots of an existing slot row holding c, run without
\* interference, sets the row to n and changes the parent's total_slots by
\* exactly n - c; when its transaction fails neither is written.
C3_UpdateAppliesDelta ==
  [][\A p \in Procs :
       (TxEnds(p, "updateCommitteeSlots") /\ Key(p) \in DOMAIN committee_slots)
       => IF result'[p].state = "resolved"
          THEN /\ committee_slots' = [committee_slots EXCEPT ![Key(p)] =
                                        req[p].slotRequirements]
               /\ committee' = [committee EXCEPT ![req[p].committeeId] =
                     Raised(@, req[p].slotRequirements - committee_slots[Key(p)])]
               /\ result'[p].rows[1] = 1
               /\ status'[p] = 200
          ELSE UNCHANGED <<committee, committee_slots>>
    ]_vars

\* An update that lowered an existing slot row has committed.
W_C3_UpdateCommitted ==
  \E p \in Procs :
    /\ pc[p] = "done" /\ req[p].op = "updateCommitteeSlots" /\ status[p] = 200
    /\ committee_slots[Key(p)] = req[p].slotRequirements
    /\ req[p].committeeId = 2
    /\ committee[2] = Int1(0)

\* C4: updateCommitteeSlots never applies a partial update: when its
\* transaction ends, the slot row and the parent's total_slots are both as
\* they were or both written.
C4_NoPartialUpdate ==
  [][\A p \in Procs :
       TxEnds(p, "updateCommitteeSlots")
       => ((committee_slots' = committee_slots) <=> (committee' = committee))
    ]_vars

\* C5: addCommitteeSlots for a committee or a senate division that does not
\* exist rejects with the foreign-key code (the handler answers 409); the
\* aggregate increment is never written and no committee or slot row changes.
C5_AddMissingKeyConflicts ==
  [][\A p \in Procs :
       LET missing == \/ req[p].committeeId \notin DOMAIN committee
                      \/ req[p].senateDivision \notin SenateDivisions
       IN /\ (pc[p] = "stmt1" /\ req[p].op = "addCommitteeSlots"
                /\ pc'[p] = "stmt2" /\ missing)
             => (txErr'[p] = "23503" /\ ~txSlot'[p])
          /\ (pc[p] = "stmt2" /\ req[p].op = "addCommitteeSlots"
                /\ pc'[p] = "end" /\ missing)
             => ~txTotal'[p].w
          /\ (TxEnds(p, "addCommitteeSlots") /\ missing)
             => /\ result'[p] = Rejected("23503")
                /\ status'[p] = 409
                /\ UNCHANGED <<committee, committee_slots>>
    ]_vars

\* An add naming a missing committee or division has been answered 409.
W_C5_MissingKeyAnswered ==
  \E p \in Procs :
    /\ pc[p] = "done" /\ req[p].op = "addCommitteeSlots" /\ status[p] = 409
    /\ result[p].code = "23503"
    /\ req[p].senateDivision \notin SenateDivisions
    /\ \E c \in DOMAIN committee : committee[c] # NULL /\ committee[c][1] > 0

\* C6: addCommitteeSlots for a pair that already has a slot row rejects with
\* the unique-violation code (the handler answers 409) and changes nothing:
\* the row keeps its slotRequirements and total_slots is unchanged.
C6_AddDuplicateConflicts ==
  [][\A p \in Procs :
       LET duplicate == Key(p) \in DOMAIN committee_slots
       IN /\ (pc[p] = "stmt1" /\ req[p].op = "addCommitteeSlots"
                /\ pc'[p] = "stmt2" /\ duplicate)
             => (txErr'[p] = "23505" /\ ~txSlot'[p])
          /\ (pc[p] = "stmt2" /\ req[p].op = "addCommitteeSlots"
                /\ pc'[p] = "end" /\ duplicate)
             => ~txTotal'[p].w
          /\ (TxEnds(p, "addCommitteeSlots") /\ duplicate)
             => /\ result'[p] = Rejected("23505")
                /\ status'[p] = 409
                /\ UNCHANGED <<committee, committee_slots>>
    ]_vars

\* An add of another count for an existing pair has been answered 409.
W_C6_DuplicateAnswered ==
  \E p \in Procs :
    /\ pc[p] = "done" /\ req[p].op = "addCommitteeSlots" /\ status[p] = 409
    /\ result[p].code = "23505"
    /\ Key(p) \in DOMAIN committee_slots
    /\ committee_slots[Key(p)] # req[p].slotRequirements

\* C8: updateCommitteeSlots for a pair without a slot row completes: its
\* transaction raises no constraint error, it resolves reporting zero rows for
\* the slot update, and the handler answers 404 (not 200, not 500).
C8_UpdateMissingIsNotFound ==
  [][\A p \in Procs :
       (TxEnds(p, "updateCommitteeSlots") /\ Key(p) \notin DOMAIN committee_slots)
       => /\ txErr[p] \in {"", "ECONN"}
          /\ txErr[p] = ""
             => /\ result'[p].state = "resolved"
                /\ result'[p].rows[1] = 0
                /\ status'[p] = 404
          /\ committee_slots' = committee_slots
    ]_vars

\* Updates of a missing pair have been answered 404, for an existing and for a
\* missing committee.
W_C8_MissingAnswered ==
  \E p \in Procs :
    /\ pc[p] = "done" /\ req[p].op = "updateCommitteeSlots" /\ status[p] = 404
    /\ Key(p) \notin DOMAIN committee_slots
    /\ req[p].committeeId \in DOMAIN committee
    /\ Cardinality(DOMAIN committee_slots) > 0

\* C9: deleteSlotRequirement of an existing pair removes exactly that slot row
\* and reports one row (the handler answers 200); of a missing pair it removes
\* nothing and resolves reporting zero rows (the handler answers 404).
C9_DeleteRemovesExactlyTheRow ==
  [][\A p \in Procs :
       Runs(p, "deleteSlotRequirement")
       => LET k == <<req'[p].committeeId, req'[p].senateDivision>>
          IN IF k \in DOMAIN committee_slots
             THEN /\ committee_slots' = Remove(committee_slots, k)
                  /\ result'[p] = Resolved(<<1>>)
                  /\ status'[p] = 200
             ELSE /\ committee_slots' = committee_slots
                  /\ result'[p] = Resolved(<<0>>)
                  /\ status'[p] = 404
    ]_vars

\* A delete has removed one slot row and left the other committee's row.
W_C9_DeletedOne ==
  \E p \in Procs :
    /\ pc[p] = "done" /\ req[p].op = "deleteSlotRequirement" /\ status[p] = 200
    /\ Key(p) \notin DOMAIN committee_slots
    /\ Cardinality(DOMAIN committee_slots) = 1

\* C10: deleteSlotRequirement leaves total_slots of every committee as it
\* was, whether or not a row was deleted.
C10_DeleteKeepsTotals ==
  [][\A p \in Procs : Runs(p, "deleteSlotRequirement") => committee' = committee
    ]_vars

\* A delete has removed a committee's only slot row and its total_slots still
\* counts the deleted requirement.
W_C10_TotalKeptAfterDelete ==
  \E p \in Procs :
    /\ pc[p] = "done" /\ req[p].op = "deleteSlotRequirement" /\ status[p] = 200
    /\ SlotKeysOf(req[p].committeeId) = {}
    /\ committee[req[p].committeeId] # NULL
    /\ committee[req[p].committeeId][1] > 0

\* Request p commits an update of its slot row after exactly one other
\* request committed an update of the same row since p's pre-read, that other
\* request's own pre-read not having been overtaken: both pre-reads saw the
\* same row and the same total_slots, and happened before either commit.
RacedCommit(p) ==
  /\ TxCommits(p, "updateCommitteeSlots")
  /\ txSlot[p]
  /\ hist[p].raced = "updateCommitteeSlots"

\* The slot value p's pre-read saw.
ReadValue(p) == req[p].slotRequirements - slotDifference[p][1]

C11_OnlySlotOperationsWriteTotal ==
  [][\A c \in DOMAIN committee :
       committee'[c] # committee[c]
       => \E p \in Procs : \/ TxCommits(p, "addCommitteeSlots")
                           \/ TxCommits(p, "updateCommitteeSlots")
    ]_vars

\* C12: under any interleaving of slot creates, updates and deletes no pair
\* (committee_id, senate_division_short_name) ever has two slot rows, and
\* every slot row references an existing committee and senate division.  The
\* table holds one row per pair; a second row could only come from two pending
\* inserts of one pair or from an insert that commits on a pair already present.
C12_SlotKeysUniqueAndReferenced ==
  /\ [](\A k \in DOMAIN committee_slots :
          k[1] \in DOMAIN committee /\ k[2] \in SenateDivisions)
  /\ [](\A p, q \in Procs :
          ( /\ p # q
            /\ txSlot[p] /\ req[p].op = "addCommitteeSlots"
            /\ txSlot[q] /\ req[q].op = "addCommitteeSlots" )
          => Key(p) # Key(q))
  /\ [][\A p \in Procs :
          TxCommits(p, "addCommitteeSlots")
          => Key(p) \notin DOMAIN committee_slots
       ]_vars

\* One request has inserted a pair and not yet committed while another
\* request's insert of the same pair waits for it.
W_C12_InsertWaitsForInsert ==
  \E p, q \in Procs :
    /\ p # q
    /\ pc[p] = "end" /\ req[p].op = "addCommitteeSlots" /\ txSlot[p]
    /\ pc[q] = "stmt1" /\ req[q].op = "addCommitteeSlots"
    /\ Key(q) = Key(p)

\* The handler of op answers request p in this step, its transaction ending.
Answers(p, op) == TxEnds(p, op) /\ calls'[p].answered = calls[p].answered + 1

\* C13: the POST slot handler answers the outcome of addCommitteeSlots with
\* exactly one response: 201 with the Location header set when it resolves,
\* 409 when it rejects with code 23503 or 23505, and 500 with the message
\* 'Internal Server Error' and the error's text for any other rejection.
C13_PostSlotsAnswer ==
  [][\A p \in Procs :
       TxEnds(p, "addCommitteeSlots")
       => /\ Answers(p, "addCommitteeSlots")
          /\ calls'[p].answered = 1
          /\ IF txErr[p] = ""
             THEN /\ result'[p].state = "resolved"
                  /\ status'[p] = 201
                  /\ response'[p].location
             ELSE IF txErr[p] \in {"23503", "23505"}
             THEN /\ result'[p].state = "rejected"
                  /\ status'[p] = 409
             ELSE /\ result'[p].state = "rejected"
                  /\ status'[p] = 500
                  /\ response'[p].message = "Internal Server Error"
                  /\ response'[p].error = ErrorText(txErr[p])
                  /\ ~response'[p].location
    ]_vars

\* An add lost to a store failure after its INSERT has been answered 500 with
\* the error's text.
W_C13_PostAnsweredServerError ==
  \E p \in Procs :
    /\ pc[p] = "done" /\ req[p].op = "addCommitteeSlots" /\ status[p] = 500
    /\ response[p].message = "Internal Server Error"
    /\ response[p].error = "Connection terminated unexpectedly"
    /\ Key(p) \notin DOMAIN committee_slots
    /\ calls[p].answered = 1

\* C14: the PUT slot handler answers the outcome of updateCommitteeSlots with
\* exactly one response: 200 when the slot update reports at least one row,
\* 404 when it reports none, and 500 with the message 'Internal Server Error'
\* and the error's text when the operation rejects.
C14_PutSlotsAnswer ==
  [][\A p \in Procs :
       TxEnds(p, "updateCommitteeSlots")
       => /\ Answers(p, "updateCommitteeSlots")
          /\ calls'[p].answered = 1
          /\ IF txErr[p] # ""
             THEN /\ result'[p].state = "rejected"
                  /\ status'[p] = 500
                  /\ response'[p].message = "Internal Server Error"
                  /\ response'[p].error = ErrorText(txErr[p])
             ELSE IF txSlot[p]
             THEN result'[p].state = "resolved" /\ status'[p] = 200
             ELSE result'[p].state = "resolved" /\ status'[p] = 404
    ]_vars

\* An update lost to a store failure after its slot statement has been
\* answered 500 with the error's text, the row keeping its value.
W_C14_PutAnsweredServerError ==
  \E p \in Procs :
    /\ pc[p] = "done" /\ req[p].op = "updateCommitteeSlots" /\ status[p] = 500
    /\ response[p].message = "Internal Server Error"
    /\ response[p].error = "Connection terminated unexpectedly"
    /\ Key(p) \in DOMAIN committee_slots
    /\ committee_slots[Key(p)] # req[p].slotRequirements

\* C15: a write handler (slot POST and PUT, committee POST and PUT,
\* department-association PUT) answers a request lacking a required field
\* with 400 and calls no database operation for it: the connection is not
\* taken and no table changes.
C15_MissingFieldIsBadRequest ==
  [][\A p \in Procs :
       ( /\ Free(p)
         /\ req'[p] # req[p] \/ calls'[p] # calls[p] \/ pc'[p] # pc[p]
         /\ req'[p].missing \in RequiredFields(req'[p].op) )
       => /\ pc'[p] = "done"
          /\ status'[p] = 400
          /\ calls'[p] = [db |-> 0, tx |-> 0, answered |-> 1]
          /\ UNCHANGED <<committee, committee_slots, department_associations,
                         db, created, conn>>
    ]_vars

\* A department-association update lacking a field has been answered 400
\* while the tables hold rows.
W_C15_BadRequestAnswered ==
  \E p \in Procs :
    /\ pc[p] = "done" /\ status[p] = 400
    /\ req[p].op = "updateDepartmentAssociations"
    /\ req[p].missing = "oldDepartmentId"
    /\ calls[p].db = 0
    /\ Cardinality(DOMAIN committee_slots) > 0

\* C16: PUT /committee with a totalSlots below the committee's slot minimums
\* (the sum of its slot requirements) is answered 409 and the committee row
\* is not updated.
C16_ReductionBelowMinimumsConflicts ==
  [][\A p \in Procs :
       ( /\ Runs(p, "updateCommittee")
         /\ req'[p].missing = ""
         /\ req'[p].committeeId \in DOMAIN committee
         /\ req'[p].slotRequirements > 0
         /\ req'[p].slotRequirements < SlotSum(req'[p].committeeId) )
       => (status'[p] = 409 /\ committee' = committee)
    ]_vars

\* C17: no operation retries: within one request the create, update and
\* delete slot operations start their write transaction at most once, and a
\* failed transaction is reported to the caller once, in the step it ends,
\* with its own error and without a second attempt.
C17_NoRetry ==
  /\ [](\A p \in Procs : calls[p].tx <= 1 /\ calls[p].answered <= 1)
  /\ [][\A p \in Procs :
          (pc[p] = "end" /\ txErr[p] # "" /\ pc'[p] # pc[p])
          => /\ pc'[p] = "done"
             /\ result'[p] = Rejected(txErr[p])
             /\ calls'[p] = [db |-> 1, tx |-> 1, answered |-> 1]
             /\ UNCHANGED <<committee, committee_slots>>
       ]_vars

\* An update whose transaction was lost after its slot statement has been
\* reported once, after one attempt.
W_C17_FailureReportedOnce ==
  \E p \in Procs :
    /\ pc[p] = "done" /\ req[p].op = "updateCommitteeSlots"
    /\ result[p].state = "rejected" /\ result[p].code = "ECONN"
    /\ calls[p] = [db |-> 1, tx |-> 1, answered |-> 1]
    /\ Key(p) \in DOMAIN committee_slots

\* C18: across the calls of loadDatabaseConnection the handle is created at
\* most once, on the first call, and every call returns that same handle.
C18_OneConnectionHandle ==
  /\ created <= 1
  /\ db = created
  /\ \A p \in Procs : conn[p] # 0 => (conn[p] = 1 /\ conn[p] = db)

\* Two requests have each called loadDatabaseConnection, the second while the
\* first one's operation was still running, and hold the one handle created.
W_C18_HandleShared ==
  /\ created = 1
  /\ \A p \in Procs : conn[p] = db /\ calls[p].db = 1
  /\ \E p \in Procs : pc[p] = "end"

\* C19: when deleteSlotRequirement on a slot commits between the pre-read and
\* the transaction of a concurrent updateCommitteeSlots on the same slot, the
\* update's slot statement affects zero rows and the update leaves the
\* committee's total_slots unchanged.
C19_UpdateAfterDeleteKeepsTotal ==
  [][\A p \in Procs :
       ( /\ TxCommits(p, "updateCommitteeSlots")
         /\ hist[p].raced = "deleteSlotRequirement"
         /\ slotDifference[p] # NULL )
       => /\ result'[p].rows[1] = 0
          /\ committee_slots' = committee_slots
          /\ committee' = committee
    ]_vars

\* C20: when two addCommitteeSlots calls for one committee and different
\* senate divisions (both valid, with values n1 and n2) run concurrently, in
\* any interleaving in which both commit, both slot rows exist afterwards and
\* the committee's total_slots has increased by exactly n1 + n2.  Stated at
\* the commit of the second: the first committed, alone, while the second
\* was in flight.
C20_ConcurrentAddsBothCounted ==
  [][\A p \in Procs :
       (TxCommits(p, "addCommitteeSlots") /\ hist[p].raced = "addCommitteeSlots")
       => /\ hist[p].by \in DOMAIN committee_slots'
          /\ Key(p) \in DOMAIN committee_slots'
          /\ hist[p].by # Key(p)
          /\ committee_slots'[Key(p)] = req[p].slotRequirements
          /\ committee_slots'[hist[p].by] = committee_slots[hist[p].by]
          /\ committee'[req[p].committeeId] =
               Raised(hist[p].readTotal,
                      req[p].slotRequirements + committee_slots[hist[p].by])
    ]_vars

\* The second of two concurrent adds is about to commit: the other add, of a
\* positive count for the other division, committed while this one was in
\* flight, and this one adds a positive count too.
W_C20_SecondAddCommits ==
  \E p \in Procs :
    /\ pc[p] = "end" /\ req[p].op = "addCommitteeSlots" /\ txErr[p] = ""
    /\ hist[p].raced = "addCommitteeSlots"
    /\ req[p].slotRequirements > 0
    /\ hist[p].by \in DOMAIN committee_slots
    /\ committee_slots[hist[p].by] > 0
    /\ hist[p].readTotal # NULL

\* C21: when two addCommitteeSlots calls for the same pair run concurrently
\* and one commits, the other fails (unique violation, nothing written):
\* afterwards the pair has exactly the committed call's row and total_slots
\* has increased by exactly the committed call's slotRequirements.  Stated at
\* the end of the other call: the first committed, alone, while it was in
\* flight.
C21_ConcurrentAddsOfOnePair ==
  [][\A p \in Procs :
       ( /\ TxEnds(p, "addCommitteeSlots")
         /\ hist[p].raced = "addCommitteeSlots"
         /\ hist[p].by = Key(p) )
       => /\ result'[p] = Rejected("23505")
          /\ UNCHANGED <<committee, committee_slots>>
          /\ Key(p) \in DOMAIN committee_slots'
          /\ committee'[req[p].committeeId] =
               Raised(hist[p].readTotal, committee_slots'[Key(p)])
    ]_vars

\* The loser of two concurrent adds of one pair is about to fail: the other
\* add committed a different, positive count while this one was in flight.
W_C21_LoserFails ==
  \E p \in Procs :
    /\ pc[p] = "end" /\ req[p].op = "addCommitteeSlots"
    /\ hist[p].raced = "addCommitteeSlots" /\ hist[p].by = Key(p)
    /\ txErr[p] = "23505"
    /\ committee_slots[Key(p)] > 0
    /\ committee_slots[Key(p)] # req[p].slotRequirements
    /\ hist[p].readTotal # NULL

\* Every committee's total_slots is at least the sum of its slot requirements,
\* which is not negative.
TotalsCoverSlots ==
  \A c \in DOMAIN committee :
    /\ committee[c] # NULL
    /\ SlotSum(c) >= 0
    /\ IF committee[c] = NULL THEN FALSE ELSE committee[c][1] >= SlotSum(c)

\* Request p completes, in this step, a slot operation on valid keys: an
\* addCommitteeSlots, an updateCommitteeSlots of an existing slot row, or a
\* deleteSlotRequirement.
SlotOperationCompletes(p) ==
  \/ TxEnds(p, "addCommitteeSlots")
  \/ TxEnds(p, "updateCommitteeSlots") /\ Key(p) \in DOMAIN committee_slots
  \/ Runs(p, "deleteSlotRequirement")

\* C22: with requests served one at a time, a slot operation on valid keys
\* and existing slots, carrying a non-negative count, started where every
\* committee has total_slots >= sum of slot requirements >= 0 ends where that
\* still holds: total_slots never becomes negative.
C22_TotalsKeepCoveringSlots ==
  [][\A p \in Procs :
       (TotalsCoverSlots /\ SlotOperationCompletes(p)) => TotalsCoverSlots'
    ]_vars

\* An update has raised an existing slot row to a positive count and the
\* committee's total_slots equals the sum of its slot requirements.
W_C22_UpdateKeptCover ==
  \E p \in Procs :
    /\ pc[p] = "done" /\ req[p].op = "updateCommitteeSlots" /\ status[p] = 200
    /\ req[p].slotRequirements > 0
    /\ TotalsCoverSlots
    /\ committee[req[p].committeeId] = Int1(SlotSum(req[p].committeeId))

\* C23: with requests served one at a time, an updateCommitteeSlots call that
\* repeats the call before it (same committee, division and count, on an
\* existing row, the first having resolved) computes the difference 0 and
\* leaves the slot row at that count and the committee's total_slots as the
\* first call left them.
C23_RepeatedUpdateChangesNothing ==
  [][\A p \in Procs :
       (TxEnds(p, "updateCommitteeSlots") /\ hist[p].again)
       => /\ slotDifference[p] = Int1(0)
          /\ UNCHANGED <<committee, committee_slots>>
          /\ Key(p) \in DOMAIN committee_slots'
          /\ committee_slots'[Key(p)] = req[p].slotRequirements
    ]_vars

\* A repeated update of a row to a positive count has run both statements
\* and is about to commit.
W_C23_SecondUpdateCommits ==
  \E p \in Procs :
    /\ pc[p] = "end" /\ req[p].op = "updateCommitteeSlots"
    /\ hist[p].again
    /\ txErr[p] = "" /\ txSlot[p] /\ txTotal[p].w
    /\ req[p].slotRequirements > 0
    /\ committee[req[p].committeeId] # NULL

====
